---- MODULE Spec2Model ----
(***************************************************************************)
(* Model of src/src/model_predictor.py: the request-to-prediction pipeline *)
(* of ModelPredictor.predict (transform, capture, score, drift check,      *)
(* response) as served by the PredictorApi route, with the capture         *)
(* directory as the only shared mutable resource.                          *)
(***************************************************************************)
EXTENDS Integers, Sequences, FiniteSets, TLC

\* ------------------------------------------------------------------ bounds
\* number of requests the server handles in one behaviour
MaxReq == 2
\* longest Data.id that is enumerated
MaxIdLen == 2
\* reduced width of the uint64 row hashes (pandas sums them modulo 2^64)
HashMod == 251

Reqs == 1..MaxReq

\* ------------------------------------------------------------ request data
\* characters a Data.id is made of: one whitespace and one other character
IdChars == {" ", "r"}
Whitespace == {" "}
Ids == UNION {[1..n -> IdChars] : n \in 0..MaxIdLen}

\* keys of config_file_path_specific: the problem ids a caller may name
Probs == {"prob-1", "prob-2"}
\* a plausible slip: every key of config_file_path_specific is loaded
ConfiguredProbsAll == Probs
\* `for prob in ["prob-1"]': the only problem id loaded by __init__
ConfiguredProbs == {"prob-1"}

\* prob_config[prob].categorical_cols, as loaded at start-up
categorical_cols == {"cat"}
\* category_index[prob]: raw category value -> integer code (7 is known)
category_index == [c \in categorical_cols |-> (7 :> 1)]
\* code given to a category value that is absent from the index
FallbackCode == 0 - 1

\* Data.rows / Data.columns of the requests that are enumerated: a known
\* category, an unseen category, a table without the categorical column
\* and a table whose rows are narrower than its header
SampleTables ==
    { [columns |-> <<"cat", "num">>, rows |-> << <<7, 5>> >>],
      [columns |-> <<"cat", "num">>, rows |-> << <<8, 5>> >>],
      [columns |-> <<"num">>,        rows |-> << <<5>> >>],
      [columns |-> <<"cat", "num">>, rows |-> << <<7>> >>] }

Requests == [id : Ids, table : SampleTables, prob : Probs]

\* ------------------------------------------------------------ pure helpers
RECURSIVE lstrip(_)
lstrip(s) ==
    IF s # <<>> /\ Head(s) \in Whitespace THEN lstrip(Tail(s)) ELSE s

RECURSIVE rstrip(_)
rstrip(s) ==
    IF s # <<>> /\ s[Len(s)] \in Whitespace
    THEN rstrip(SubSeq(s, 1, Len(s) - 1))
    ELSE s

\* a plausible slip: testing `if data_id:' without stripping
strip_noop(s) == s

\* str.strip()
strip(s) == rstrip(lstrip(s))

RECURSIVE SeqSum(_)
SeqSum(s) == IF s = <<>> THEN 0 ELSE Head(s) + SeqSum(Tail(s))

RECURSIVE SeqMax(_)
SeqMax(s) ==
    IF s = <<>> THEN 0
    ELSE LET m == SeqMax(Tail(s)) IN IF Head(s) > m THEN Head(s) ELSE m

ColIndex(columns, c) == CHOOSE i \in 1..Len(columns) : columns[i] = c

\* pd.DataFrame(data.rows, columns=data.columns): pandas rejects a table
\* whose row width differs from the number of column names
ShapeOK(table) ==
    \/ table.rows = <<>>
    \/ SeqMax([i \in 1..Len(table.rows) |-> Len(table.rows[i])])
           = Len(table.columns)

\* RawDataProcessor.apply_category_features fails when a declared
\* categorical column is not in the raw table
MissingCategorical(raw_df) ==
    \E c \in categorical_cols :
        \A i \in 1..Len(raw_df.columns) : raw_df.columns[i] # c

EncodeCell(col, v) ==
    IF col \in categorical_cols
    THEN IF v \in DOMAIN category_index[col]
         THEN category_index[col][v]
         ELSE FallbackCode
    ELSE v

\* RawDataProcessor.apply_category_features: every categorical cell is
\* replaced by its code, every other cell passes through, rows keep order
apply_category_features(raw_df) ==
    [columns |-> raw_df.columns,
     rows    |-> [i \in 1..Len(raw_df.rows) |->
                    [j \in 1..Len(raw_df.columns) |->
                        EncodeCell(raw_df.columns[j], raw_df.rows[i][j])]]]

\* hash_pandas_object(feature_df): one hash per row, from the row's index
\* and its cell values (column names take no part), at reduced width
HashRow(i, row) ==
    (31 * i + SeqSum([j \in 1..Len(row) |-> (j + 6) * (row[j] + 2)]))
        % HashMod

\* hash_pandas_object(feature_df).sum(): wrapping sum of the row hashes
Fingerprint(df) ==
    SeqSum([i \in 1..Len(df.rows) |-> HashRow(i, df.rows[i])]) % HashMod

Digits == <<"0", "1", "2", "3", "4", "5", "6", "7", "8", "9">>

\* f"{filename}" of a non-negative integer: its decimal digits
RECURSIVE Decimal(_)
Decimal(n) ==
    IF n < 10 THEN <<Digits[n + 1]>>
    ELSE Append(Decimal(n \div 10), Digits[(n % 10) + 1])

\* the `filename' chosen by save_request_data
Filename(df, data_id) ==
    IF strip(data_id) # <<>> THEN data_id ELSE Decimal(Fingerprint(df))

\* a plausible slip: exclusive create, an existing file is left alone
WriteFileExclusive(dir, key, df) ==
    IF key \in DOMAIN dir THEN dir
    ELSE [k \in DOMAIN dir \cup {key} |-> IF k = key THEN df ELSE dir[k]]

\* a plausible slip: the capture directory is emptied before each write
WriteFileClobber(dir, key, df) == [k \in {key} |-> df]

\* feature_df.to_parquet(output_file_path, index=False): the file at the
\* path is created or replaced and holds the columns and rows of the table
to_parquet(dir, key, df) ==
    [k \in DOMAIN dir \cup {key} |-> IF k = key THEN df ELSE dir[k]]

\* self.model[prob].predict(feature_df): one prediction per row, in order
\* (the reference model echoes the numeric column)
ModelPredict(df) ==
    [i \in 1..Len(df.rows) |-> df.rows[i][ColIndex(df.columns, "num")]]

\* detect_drift: random.choice([0, 1])
DriftOutcomes == {0, 1}

\* ------------------------------------------------------------------ state
VARIABLES
    pc,          \* pc[r]: stage of request r
    req,         \* req[r]: <<>> or <<the Data and prob of request r>>
    feature_df,  \* feature_df[r]: <<>> or <<the transformed table>>
    prediction,  \* prediction[r]: <<>> or <<the model's output>>
    response,    \* response[r]: <<>> or <<the dict returned by predict>>
    err,         \* err[r]: "" or the kind of the error that ended r
    calls,       \* calls[r]: the collaborators called for r, in order
    hist,        \* hist[r]: the stages r has entered, in order
    files,       \* captured_data_dir: filename -> stored table
    saves        \* the completed capture writes, in order

vars == <<pc, req, feature_df, prediction, response, err, calls, hist,
          files, saves>>

Active == {"RECEIVED", "TRANSFORMED", "CAPTURED", "SCORED"}

\* the route handler is `async def' and never awaits: the event loop runs
\* one handler to completion before it starts the next
LoopFree == \A q \in Reqs : pc[q] \notin Active

Init ==
    /\ pc = [r \in Reqs |-> "NONE"]
    /\ req = [r \in Reqs |-> <<>>]
    /\ feature_df = [r \in Reqs |-> <<>>]
    /\ prediction = [r \in Reqs |-> <<>>]
    /\ response = [r \in Reqs |-> <<>>]
    /\ err = [r \in Reqs |-> ""]
    /\ calls = [r \in Reqs |-> <<>>]
    /\ hist = [r \in Reqs |-> <<>>]
    /\ files = <<>>
    /\ saves = <<>>

Enter(r, stage) ==
    /\ pc' = [pc EXCEPT ![r] = stage]
    /\ hist' = [hist EXCEPT ![r] = Append(@, stage)]

Reject(r, kind) ==
    /\ Enter(r, "REJECTED")
    /\ err' = [err EXCEPT ![r] = kind]

\* PredictorApi.predict is entered with a parsed Data; requests are
\* numbered in the order the event loop dispatches them
Receive(r) ==
    /\ pc[r] = "NONE"
    /\ \A q \in Reqs : q < r => pc[q] # "NONE"
    /\ LoopFree
    /\ \E d \in Requests : req' = [req EXCEPT ![r] = <<d>>]
    /\ Enter(r, "RECEIVED")
    /\ UNCHANGED <<feature_df, prediction, response, err, calls, files,
                   saves>>

\* a plausible slip: a failed transformation is logged and the raw table
\* is passed on
TransformLenient(r) ==
    /\ pc[r] = "RECEIVED"
    /\ LET d == req[r][1] IN
         /\ calls' = [calls EXCEPT ![r] = Append(@, "transform")]
         /\ feature_df' = [feature_df EXCEPT ![r] = <<d.table>>]
         /\ Enter(r, "TRANSFORMED")
         /\ UNCHANGED err
    /\ UNCHANGED <<req, prediction, response, files, saves>>

\* predict, `# preprocess': build raw_df, look up the problem's
\* configuration and apply the category features
Transform(r) ==
    /\ pc[r] = "RECEIVED"
    /\ LET d == req[r][1] IN
         /\ calls' = [calls EXCEPT ![r] = Append(@, "transform")]
         /\ IF ~ShapeOK(d.table)
            THEN Reject(r, "ValidationError") /\ UNCHANGED feature_df
            ELSE IF d.prob \notin ConfiguredProbs
            THEN Reject(r, "NotFoundError") /\ UNCHANGED feature_df
            ELSE IF MissingCategorical(d.table)
            THEN Reject(r, "ValidationError") /\ UNCHANGED feature_df
            ELSE /\ feature_df' = [feature_df EXCEPT ![r] =
                                     <<apply_category_features(d.table)>>]
                 /\ Enter(r, "TRANSFORMED")
                 /\ UNCHANGED err
    /\ UNCHANGED <<req, prediction, response, files, saves>>

\* a plausible slip: a failed write is retried
CaptureRetry(r) ==
    /\ pc[r] = "TRANSFORMED"
    /\ calls' = [calls EXCEPT ![r] = Append(@, "save_request_data")]
    /\ LET df  == feature_df[r][1]
           key == Filename(df, req[r][1].id)
       IN \E writable \in BOOLEAN :
            IF writable
            THEN /\ files' = to_parquet(files, key, df)
                 /\ saves' = Append(saves,
                                [r |-> r, id |-> req[r][1].id, df |-> df,
                                 key |-> key,
                                 fresh |-> key \notin DOMAIN files])
                 /\ Enter(r, "CAPTURED")
                 /\ UNCHANGED err
            ELSE UNCHANGED <<pc, hist, err, files, saves>>
    /\ UNCHANGED <<req, feature_df, prediction, response>>

\* a plausible slip: a failed write is logged and the request goes on
CaptureBestEffort(r) ==
    /\ pc[r] = "TRANSFORMED"
    /\ calls' = [calls EXCEPT ![r] = Append(@, "save_request_data")]
    /\ LET df  == feature_df[r][1]
           key == Filename(df, req[r][1].id)
       IN \E writable \in BOOLEAN :
            IF writable
            THEN /\ files' = to_parquet(files, key, df)
                 /\ saves' = Append(saves,
                                [r |-> r, id |-> req[r][1].id, df |-> df,
                                 key |-> key,
                                 fresh |-> key \notin DOMAIN files])
            ELSE UNCHANGED <<files, saves>>
    /\ Enter(r, "CAPTURED")
    /\ UNCHANGED <<req, feature_df, prediction, response, err>>

\* predict, `# save request data for improving models': the call of
\* save_request_data; a failed write raises out of predict
Capture(r) ==
    /\ pc[r] = "TRANSFORMED"
    /\ calls' = [calls EXCEPT ![r] = Append(@, "save_request_data")]
    /\ LET df  == feature_df[r][1]
           key == Filename(df, req[r][1].id)
       IN \E writable \in BOOLEAN :
            IF writable
            THEN /\ files' = to_parquet(files, key, df)
                 /\ saves' = Append(saves,
                                [r |-> r, id |-> req[r][1].id, df |-> df,
                                 key |-> key,
                                 fresh |-> key \notin DOMAIN files])
                 /\ Enter(r, "CAPTURED")
                 /\ UNCHANGED err
            ELSE /\ Reject(r, "CaptureError")
                 /\ UNCHANGED <<files, saves>>
    /\ UNCHANGED <<req, feature_df, prediction, response>>

\* a plausible slip: a failed model call is answered with an empty result
ScoreFallback(r) ==
    /\ pc[r] = "CAPTURED"
    /\ calls' = [calls EXCEPT ![r] = Append(@, "model.predict")]
    /\ \E ok \in BOOLEAN :
         /\ prediction' = [prediction EXCEPT ![r] =
                 <<IF ok THEN ModelPredict(feature_df[r][1]) ELSE <<>> >>]
         /\ err' = [err EXCEPT ![r] =
                 IF ok THEN @ ELSE "ModelInferenceError"]
         /\ Enter(r, "SCORED")
    /\ UNCHANGED <<req, feature_df, response, files, saves>>

\* predict, `prediction = self.model[prob].predict(feature_df)': a model
\* failure raises out of predict
Score(r) ==
    /\ pc[r] = "CAPTURED"
    /\ calls' = [calls EXCEPT ![r] = Append(@, "model.predict")]
    /\ \E ok \in BOOLEAN :
         IF ok
         THEN /\ prediction' = [prediction EXCEPT ![r] =
                                  <<ModelPredict(feature_df[r][1])>>]
              /\ Enter(r, "SCORED")
              /\ UNCHANGED err
         ELSE /\ Reject(r, "ModelInferenceError")
              /\ UNCHANGED prediction
    /\ UNCHANGED <<req, feature_df, response, files, saves>>

\* predict, from `is_drifted = self.detect_drift(feature_df)' to `return'
Respond(r) ==
    /\ pc[r] = "SCORED"
    /\ calls' = [calls EXCEPT ![r] = Append(@, "detect_drift")]
    /\ \E is_drifted \in DriftOutcomes :
         response' = [response EXCEPT ![r] =
                        <<[id |-> req[r][1].id,
                           predictions |-> prediction[r][1],
                           drift |-> is_drifted]>>]
    /\ Enter(r, "RESPONDED")
    /\ UNCHANGED <<req, feature_df, prediction, err, files, saves>>

Next ==
    \E r \in Reqs :
        \/ Receive(r)
        \/ Transform(r)
        \/ Capture(r)
        \/ Score(r)
        \/ Respond(r)

Spec == Init /\ [][Next]_vars

\* ------------------------------------------------------------ properties
Stages == <<"RECEIVED", "TRANSFORMED", "CAPTURED", "SCORED", "RESPONDED">>
CallOrder == <<"transform", "save_request_data", "model.predict",
               "detect_drift">>
Finished == {"REJECTED", "RESPONDED"}

IsPrefix(s, t) == Len(s) <= Len(t) /\ s = SubSeq(t, 1, Len(s))
Called(r, c) == \E i \in 1..Len(calls[r]) : calls[r][i] = c
TimesCalled(r, c) == Cardinality({i \in 1..Len(calls[r]) : calls[r][i] = c})
SavesOf(r) == {i \in 1..Len(saves) : saves[i].r = r}
IsBlank(s) == \A i \in 1..Len(s) : s[i] \in Whitespace
\* the last completed write under the key of the i-th write
LastSave(i) ==
    CHOOSE j \in 1..Len(saves) :
        /\ saves[j].key = saves[i].key
        /\ \A k \in 1..Len(saves) : saves[k].key = saves[i].key => k <= j

TypeOK ==
    /\ pc \in [Reqs -> Active \cup {"NONE", "REJECTED", "RESPONDED"}]
    /\ \A r \in Reqs : Len(req[r]) <= 1 /\ Len(response[r]) <= 1

\* C1: a request whose capture write failed is not aborted by it: once the
\* request is finished the model has been invoked, and unless the model
\* itself failed a result has been returned.
C1_CaptureFailureIsNotFatal ==
    \A r \in Reqs :
        (Called(r, "save_request_data") /\ SavesOf(r) = {}
            /\ pc[r] \in Finished)
        => /\ Called(r, "model.predict")
           /\ (err[r] # "ModelInferenceError" => response[r] # <<>>)

\* C2: a request whose raw table cannot be transformed (wrong shape, or a
\* declared categorical column is missing) is rejected once the transform
\* has run, without a capture write and without a model call.
C2_AbortBeforeWrite ==
    \A r \in Reqs :
        (Called(r, "transform")
            /\ (~ShapeOK(req[r][1].table)
                   \/ MissingCategorical(req[r][1].table)))
        => /\ pc[r] = "REJECTED"
           /\ feature_df[r] = <<>>
           /\ ~Called(r, "save_request_data")
           /\ ~Called(r, "model.predict")
           /\ SavesOf(r) = {}
           /\ response[r] = <<>>

C2_Witness ==
    \E r \in Reqs :
        /\ pc[r] = "REJECTED"
        /\ req[r][1].prob = "prob-1"
        /\ ShapeOK(req[r][1].table)
        /\ MissingCategorical(req[r][1].table)
        /\ err[r] = "ValidationError"

\* C4 (as stated): every id that is non-empty after trimming is stored
\* under the trimmed id.
C4_KeyIsTrimmedId ==
    \A i \in 1..Len(saves) :
        strip(saves[i].id) # <<>> => saves[i].key = strip(saves[i].id)

\* C4 (amended): an id with a non-whitespace character is the key exactly
\* as given, whitespace around it included, whatever the table holds; an
\* empty or whitespace-only id is never the key, the decimal content
\* fingerprint is.
C4_KeyIsVerbatimId ==
    \A i \in 1..Len(saves) :
        LET s == saves[i] IN
            /\ s.key \in DOMAIN files
            /\ IF IsBlank(s.id)
               THEN s.key = Decimal(Fingerprint(s.df)) /\ s.key # s.id
               ELSE s.key = s.id

C4_Witness ==
    \E i \in 1..Len(saves) :
        /\ saves[i].id = <<" ", "r">>
        /\ saves[i].key = <<" ", "r">>
        /\ <<" ", "r">> \in DOMAIN files

\* C5: two captures with blank ids and the same content use one key and
\* the second adds no file; two captures with the same explicit id use one
\* key, the second adds no file, and the file holds the content of the
\* last capture made under that key.
C5_IdempotentOrOverwriting ==
    \A i, j \in 1..Len(saves) :
        (i < j /\ (IF IsBlank(saves[i].id)
                   THEN IsBlank(saves[j].id) /\ saves[i].df = saves[j].df
                   ELSE saves[i].id = saves[j].id))
        => /\ saves[i].key = saves[j].key
           /\ ~saves[j].fresh
           /\ saves[j].key \in DOMAIN files
           /\ (LastSave(j) = j => files[saves[j].key] = saves[j].df)

C5_Witness ==
    \E i, j \in 1..Len(saves) :
        /\ i < j
        /\ IsBlank(saves[i].id) /\ IsBlank(saves[j].id)
        /\ saves[i].df = saves[j].df
        /\ saves[i].key = saves[j].key
        /\ Cardinality(DOMAIN files) = 1

C5_WitnessOverwrite ==
    \E i, j \in 1..Len(saves) :
        /\ i < j
        /\ ~IsBlank(saves[i].id) /\ saves[i].id = saves[j].id
        /\ saves[i].df # saves[j].df
        /\ files[saves[j].key] = saves[j].df

\* C6 (as stated): a request for a problem id other than "prob-1" ends
\* with a NotFoundError, without a capture write or a model call.
C6_UnknownProbIsNotFound ==
    \A r \in Reqs :
        (Called(r, "transform") /\ req[r][1].prob # "prob-1")
        => /\ pc[r] = "REJECTED"
           /\ err[r] = "NotFoundError"
           /\ ~Called(r, "save_request_data")
           /\ ~Called(r, "model.predict")
           /\ SavesOf(r) = {}

\* C6 (amended): a request for a problem id other than "prob-1" is
\* rejected without a capture write or a model call; the error is the
\* NotFoundError when the raw table has a valid shape and the shape
\* ValidationError otherwise, since the table is built before the lookup.
C6_UnknownProbIsRejected ==
    \A r \in Reqs :
        (Called(r, "transform") /\ req[r][1].prob # "prob-1")
        => /\ pc[r] = "REJECTED"
           /\ err[r] = (IF ShapeOK(req[r][1].table)
                        THEN "NotFoundError" ELSE "ValidationError")
           /\ ~Called(r, "save_request_data")
           /\ ~Called(r, "model.predict")
           /\ SavesOf(r) = {}
           /\ response[r] = <<>>

C6_Witness ==
    \E r \in Reqs :
        /\ req[r] # <<>>
        /\ req[r][1].prob = "prob-2"
        /\ ShapeOK(req[r][1].table)
        /\ pc[r] = "REJECTED"
        /\ err[r] = "NotFoundError"

\* C7: the stages a request has entered are a prefix of RECEIVED,
\* TRANSFORMED, CAPTURED, SCORED, RESPONDED (a rejection ends it), the
\* collaborators were each called at most once and in pipeline order, and
\* a response exists only after the model scored the transformed table.
C7_SinglePassInOrder ==
    \A r \in Reqs :
        /\ \/ IsPrefix(hist[r], Stages)
           \/ /\ Len(hist[r]) >= 2
              /\ hist[r][Len(hist[r])] = "REJECTED"
              /\ IsPrefix(SubSeq(hist[r], 1, Len(hist[r]) - 1), Stages)
        /\ IsPrefix(calls[r], CallOrder)
        /\ response[r] # <<>> =>
              /\ hist[r] = Stages
              /\ calls[r] = CallOrder
              /\ response[r][1].predictions
                    = ModelPredict(feature_df[r][1])

C7_Witness ==
    \E r \in Reqs : pc[r] = "RESPONDED" /\ hist[r] = Stages

\* C8: after a failed model call the request is rejected for good: the
\* model was called exactly once, the drift check was not run and no
\* result was returned.
C8_ModelFailureIsFatal ==
    \A r \in Reqs :
        err[r] = "ModelInferenceError"
        => /\ pc[r] = "REJECTED"
           /\ TimesCalled(r, "model.predict") = 1
           /\ ~Called(r, "detect_drift")
           /\ response[r] = <<>>

C8_Witness ==
    \E r \in Reqs :
        /\ err[r] = "ModelInferenceError"
        /\ pc[r] = "REJECTED"
        /\ Called(r, "model.predict")

C9_WitnessSameKey ==
    \E i, j \in 1..Len(saves) :
        /\ i < j
        /\ saves[i].r # saves[j].r
        /\ saves[i].key = saves[j].key
        /\ saves[i].df # saves[j].df
        /\ files[saves[j].key] = saves[j].df

\* C10: a request rejected by the model has left its capture file in the
\* directory and got no response; a request that got a response had its
\* capture file written before the model was called.
C10_CapturePrecedesScoring ==
    \A r \in Reqs :
        /\ err[r] = "ModelInferenceError" =>
              /\ \E i \in SavesOf(r) : saves[i].key \in DOMAIN files
              /\ response[r] = <<>>
        /\ response[r] # <<>> =>
              /\ \E i \in SavesOf(r) : saves[i].key \in DOMAIN files
              /\ \E m \in 1..Len(calls[r]) :
                    /\ calls[r][m] = "model.predict"
                    /\ \E c \in 1..(m - 1) :
                          calls[r][c] = "save_request_data"

C10_Witness ==
    \E r \in Reqs :
        /\ err[r] = "ModelInferenceError"
        /\ response[r] = <<>>
        /\ \E i \in SavesOf(r) : saves[i].key \in DOMAIN files
====
